---- MODULE Spec2Model ----
(***************************************************************************)
(* Model of src/services/geminiService.ts: the four gateway operations     *)
(* generateSpeech, generateStoryboard, generateSceneImage and              *)
(* checkImageForCharacter over one remote client.                          *)
(*                                                                         *)
(* A JavaScript string is a sequence of characters, each character a TLA+  *)
(* string.  A JavaScript value is a tagged pair <<tag, payload>> with tag  *)
(* one of "undef", "null", "bool", "num", "str", "arr", "obj".            *)
(* The texts of the model are written with letters, digits, punctuation,   *)
(* the space and the line feed; trim() and JSON.parse are modelled on      *)
(* those characters.                                                       *)
(***************************************************************************)
EXTENDS Naturals, Sequences, FiniteSets

(***************************************************************************)
(* Bounds of the model.                                                    *)
(***************************************************************************)
\* longest list of content parts in the first candidate of a response
MaxParts == 2
\* largest number of candidates in a response
MaxCands == 2

(***************************************************************************)
(* JavaScript values.                                                      *)
(***************************************************************************)
Undefined == <<"undef", <<>>>>
JNull == <<"null", <<>>>>
JTrue == <<"bool", <<"t">>>>
JFalse == <<"bool", <<"f">>>>
Str(s) == <<"str", s>>
Bool(b) == IF b THEN JTrue ELSE JFalse
Tag(v) == v[1]

\* JavaScript truthiness (the operand of !, !! and ||)
Truthy(v) ==
  CASE Tag(v) = "undef" -> FALSE
    [] Tag(v) = "null" -> FALSE
    [] Tag(v) = "bool" -> v[2] = <<"t">>
    [] Tag(v) = "num" -> v[2] # <<"0">>
    [] Tag(v) = "str" -> v[2] # <<>>
    [] OTHER -> TRUE

\* a || b
OrElse(a, b) == IF Truthy(a) THEN a ELSE b

(***************************************************************************)
(* String primitives: String.prototype.split(','), replace(/pat/g, ''),    *)
(* trim(), and match(/:(.*?);/).                                           *)
(***************************************************************************)
Min(S) == CHOOSE x \in S : \A y \in S : x <= y
Max(S) == CHOOSE x \in S : \A y \in S : y <= x

\* the positions of s where pat occurs
Occurrences(s, pat) ==
  {i \in 1..(Len(s) + 1 - Len(pat)) : SubSeq(s, i, i + Len(pat) - 1) = pat}

RECURSIVE RemoveAll(_, _)
\* s.replace(/pat/g, ''): the leftmost occurrence is removed, and the search
\* resumes after it
RemoveAll(s, pat) ==
  IF Occurrences(s, pat) = {} THEN s
  ELSE LET i == Min(Occurrences(s, pat))
       IN SubSeq(s, 1, i - 1)
            \o RemoveAll(SubSeq(s, i + Len(pat), Len(s)), pat)

WhiteSpace == {" ", "\n"}

\* s.trim(): from the first to the last character that is no white space
Trim(s) ==
  LET keep == {i \in 1..Len(s) : s[i] \notin WhiteSpace}
  IN IF keep = {} THEN <<>> ELSE SubSeq(s, Min(keep), Max(keep))

RECURSIVE Split(_, _)
\* s.split(sep): every piece, "" gives one empty piece
Split(s, sep) ==
  LET at == {i \in 1..Len(s) : s[i] = sep}
  IN IF at = {} THEN <<s>>
     ELSE <<SubSeq(s, 1, Min(at) - 1)>>
            \o Split(SubSeq(s, Min(at) + 1, Len(s)), sep)

\* element i of an array, undefined past its end (array destructuring)
Piece(pieces, i) == IF i <= Len(pieces) THEN Str(pieces[i]) ELSE Undefined

\* the positions where /:(.*?);/ can start: a ':' followed on the same line
\* by a ';'
MatchStarts(s) ==
  {i \in 1..Len(s) :
     /\ s[i] = ":"
     /\ \E j \in (i + 1)..Len(s) :
          /\ s[j] = ";"
          /\ \A k \in (i + 1)..(j - 1) : s[k] # "\n"}

\* header.match(/:(.*?);/)?.[1]: the lazy capture of the leftmost match
MatchMime(s) ==
  IF MatchStarts(s) = {} THEN Undefined
  ELSE LET i == Min(MatchStarts(s))
           j == Min({k \in (i + 1)..Len(s) : s[k] = ";"})
       IN Str(SubSeq(s, i + 1, j - 1))

ImagePng == <<"i", "m", "a", "g", "e", "/", "p", "n", "g">>

\* const [header, base64Data] = uri.split(',');
\* const mimeType = header.match(/:(.*?);/)?.[1] || 'image/png';
ParseDataUri(uri) ==
  LET pieces == Split(uri, ",")
      header == pieces[1]
  IN [mimeType |-> OrElse(MatchMime(header), Str(ImagePng)),
      data |-> Piece(pieces, 2)]

\* the template data:${mimeType || 'image/png'};base64,${data}
BuildDataUri(mimeType, data) ==
  <<"d", "a", "t", "a", ":">> \o OrElse(mimeType, Str(ImagePng))[2]
    \o <<";", "b", "a", "s", "e", "6", "4", ",">> \o data

(***************************************************************************)
(* JSON.parse on the characters the modelled responses use: white space,   *)
(* true, false, null, unsigned integers, strings without escapes, arrays   *)
(* and objects.  A parse yields [ok, val, pos]: whether a value was read   *)
(* at the position, the value, and the position after it.                  *)
(***************************************************************************)
Digits == {"0", "1", "2", "3", "4", "5", "6", "7", "8", "9"}

ParseFail == [ok |-> FALSE, val |-> Undefined, pos |-> 0]
ParseOk(v, p) == [ok |-> TRUE, val |-> v, pos |-> p]

RECURSIVE SkipWs(_, _)
SkipWs(s, i) ==
  IF i <= Len(s) /\ s[i] \in WhiteSpace THEN SkipWs(s, i + 1) ELSE i

\* the characters of word stand at position i of s
Lit(s, i, word) ==
  /\ i + Len(word) - 1 <= Len(s)
  /\ SubSeq(s, i, i + Len(word) - 1) = word

RECURSIVE DigitsEnd(_, _)
\* the position after the run of digits that starts at i
DigitsEnd(s, i) ==
  IF i <= Len(s) /\ s[i] \in Digits THEN DigitsEnd(s, i + 1) ELSE i

\* a number: 0, or a digit 1-9 followed by digits
ParseNumber(s, i) ==
  IF s[i] = "0" THEN ParseOk(<<"num", <<"0">>>>, i + 1)
  ELSE LET e == DigitsEnd(s, i)
       IN ParseOk(<<"num", SubSeq(s, i, e - 1)>>, e)

\* a string: from the quote at i to the next quote; a line break or a
\* backslash inside it is rejected
ParseString(s, i) ==
  LET closes == {j \in (i + 1)..Len(s) : s[j] = "\""}
  IN IF closes = {} THEN ParseFail
     ELSE LET j == Min(closes)
              body == SubSeq(s, i + 1, j - 1)
          IN IF \E k \in 1..Len(body) : body[k] \in {"\n", "\\"}
             THEN ParseFail
             ELSE ParseOk(Str(body), j + 1)

RECURSIVE ParseValue(_, _)
RECURSIVE ParseElems(_, _, _)
RECURSIVE ParseMembers(_, _, _)

ParseValue(s, i0) ==
  LET i == SkipWs(s, i0)
  IN IF i > Len(s) THEN ParseFail
     ELSE CASE s[i] = "t" ->
                 IF Lit(s, i, <<"t", "r", "u", "e">>)
                 THEN ParseOk(JTrue, i + 4) ELSE ParseFail
            [] s[i] = "f" ->
                 IF Lit(s, i, <<"f", "a", "l", "s", "e">>)
                 THEN ParseOk(JFalse, i + 5) ELSE ParseFail
            [] s[i] = "n" ->
                 IF Lit(s, i, <<"n", "u", "l", "l">>)
                 THEN ParseOk(JNull, i + 4) ELSE ParseFail
            [] s[i] \in Digits -> ParseNumber(s, i)
            [] s[i] = "\"" -> ParseString(s, i)
            [] s[i] = "[" ->
                 LET j == SkipWs(s, i + 1)
                 IN IF j <= Len(s) /\ s[j] = "]"
                    THEN ParseOk(<<"arr", <<>>>>, j + 1)
                    ELSE ParseElems(s, i + 1, <<>>)
            [] s[i] = "{" ->
                 LET j == SkipWs(s, i + 1)
                 IN IF j <= Len(s) /\ s[j] = "}"
                    THEN ParseOk(<<"obj", <<>>>>, j + 1)
                    ELSE ParseMembers(s, i + 1, <<>>)
            [] OTHER -> ParseFail

\* the elements of an array after its '[' or a ',', up to its ']'
ParseElems(s, i, acc) ==
  LET r == ParseValue(s, i)
  IN IF ~r.ok THEN ParseFail
     ELSE LET j == SkipWs(s, r.pos)
          IN IF j > Len(s) THEN ParseFail
             ELSE IF s[j] = "," THEN ParseElems(s, j + 1, Append(acc, r.val))
             ELSE IF s[j] = "]" THEN ParseOk(<<"arr", Append(acc, r.val)>>, j + 1)
             ELSE ParseFail

\* the members of an object after its '{' or a ',', up to its '}'
ParseMembers(s, i, acc) ==
  LET k == SkipWs(s, i)
  IN IF k > Len(s) \/ s[k] # "\"" THEN ParseFail
     ELSE LET key == ParseString(s, k)
          IN IF ~key.ok THEN ParseFail
             ELSE LET c == SkipWs(s, key.pos)
                  IN IF c > Len(s) \/ s[c] # ":" THEN ParseFail
                     ELSE LET r == ParseValue(s, c + 1)
                          IN IF ~r.ok THEN ParseFail
                             ELSE LET j == SkipWs(s, r.pos)
                                      m == Append(acc, <<key.val[2], r.val>>)
                                  IN IF j > Len(s) THEN ParseFail
                                     ELSE IF s[j] = "," THEN ParseMembers(s, j + 1, m)
                                     ELSE IF s[j] = "}" THEN ParseOk(<<"obj", m>>, j + 1)
                                     ELSE ParseFail

\* JSON.parse(s): one value with nothing but white space around it;
\* ok = FALSE stands for the SyntaxError it throws
JSONParse(s) ==
  LET r == ParseValue(s, 1)
  IN IF r.ok /\ SkipWs(s, r.pos) = Len(s) + 1 THEN r ELSE ParseFail

\* whether reading a property of v throws (TypeError on null and undefined)
CannotRead(v) == Tag(v) \in {"null", "undef"}

\* v[name] for a value whose properties can be read: the last member of
\* that name of an object, undefined otherwise
GetProp(v, name) ==
  IF Tag(v) # "obj" THEN Undefined
  ELSE LET hits == {k \in 1..Len(v[2]) : v[2][k][1] = name}
       IN IF hits = {} THEN Undefined
          ELSE v[2][CHOOSE k \in hits : \A h \in hits : h <= k][2]

(***************************************************************************)
(* State.                                                                  *)
(***************************************************************************)
VARIABLES
  ENV_API_KEY,  \* the fallback key read from the environment at load time
  lastImage,    \* the caller's latest generated scene image (a data-URI)
  pc,           \* "idle", "awaiting" (the remote call is in flight), "done"
  op,           \* the operation invoked
  apiKey,       \* its apiKey argument
  image,        \* its referenceImageBase64 / base64Image argument
  clients,      \* the keys handed to new GoogleGenAI by this invocation
  requests,     \* the generateContent requests issued by this invocation
  response,     \* how the remote call settled
  outcome       \* how the invocation ended: a returned value or a thrown error

vars == <<ENV_API_KEY, lastImage, pc, op, apiKey, image, clients, requests,
          response, outcome>>

NoOutcome == [kind |-> "none", val |-> Undefined, err |-> ""]
Return(v) == [kind |-> "return", val |-> v, err |-> ""]
Throw(e) == [kind |-> "throw", val |-> Undefined, err |-> e]

NoResponse ==
  [status |-> "none", err |-> "", candidates |-> <<>>, text |-> Undefined]
Resolved(cands, text) ==
  [status |-> "ok", err |-> "", candidates |-> cands, text |-> text]
Rejected(e) ==
  [status |-> "rejected", err |-> e, candidates |-> <<>>, text |-> Undefined]

(***************************************************************************)
(* Inputs: keys, images, and what the remote service may answer.           *)
(***************************************************************************)
EnvKeys == {<<>>, <<"E">>}
ApiKeys == {Undefined, Str(<<>>), Str(<<"K">>)}

\* an image that is no data-URI, and a data-URI of another type
PlainImage == <<"Q", "U", "J", "D">>
JpegImage ==
  <<"d", "a", "t", "a", ":", "i", "m", "a", "g", "e", "/", "j", "p", "e", "g",
    ";", "b", "a", "s", "e", "6", "4", ",", "Q", "Q">>
Images == {Str(<<>>), Str(PlainImage), Str(JpegImage)}

\* the errors a remote call may be rejected with
RemoteErrors == {"ApiError", "NetworkError"}

\* a MIME type with a parameter, as RFC 2045 allows
ImagePngParam == ImagePng \o <<";", "v", "=", "1">>

TextPart == [inline |-> FALSE, mimeType |-> Undefined, data |-> Undefined]
InlinePart(m, d) == [inline |-> TRUE, mimeType |-> m, data |-> d]

\* the content parts of a response: text, inline data with and without a
\* MIME type, inline data whose payload is empty
PartSet ==
  {TextPart,
   InlinePart(Str(ImagePng), Str(<<"A", "B">>)),
   InlinePart(Undefined, Str(<<"C">>)),
   InlinePart(Str(ImagePngParam), Str(<<"A", "B">>)),
   InlinePart(Str(ImagePng), Str(<<>>))}

SeqsUpTo(S, n) == UNION {[1..k -> S] : k \in 0..n}

\* a candidate: its content.parts, or none
NoParts == [hasParts |-> FALSE, parts |-> <<>>]
WithParts(ps) == [hasParts |-> TRUE, parts |-> ps]
FirstCands == {NoParts} \cup {WithParts(ps) : ps \in SeqsUpTo(PartSet, MaxParts)}
\* the candidates after the first: one that carries data, one that does not
LaterCands == {WithParts(<<InlinePart(Str(ImagePng), Str(<<"Z">>))>>), NoParts}

CandidateLists ==
  {<<>>} \cup
  {<<c>> \o rest : c \in FirstCands, rest \in SeqsUpTo(LaterCands, MaxCands - 1)}

\* the grave accent U+0060, which a TLA+ string literal cannot hold
Tick == "GRAVE"
\* the patterns of the two replace(/.../g, '') calls: the json-tagged fence
\* and the bare fence
FenceJson == <<Tick, Tick, Tick, "j", "s", "o", "n">>
Fence == <<Tick, Tick, Tick>>
\* c inside a json-tagged code fence, and inside an untagged one
InJsonFence(c) == FenceJson \o <<"\n">> \o c \o <<"\n">> \o Fence
InPlainFence(c) == Fence \o <<"\n">> \o c \o <<"\n">> \o Fence

Q(s) == <<"\"">> \o s \o <<"\"">>
NarrativeText == <<"n", "a", "r", "r", "a", "t", "i", "v", "e", "T", "e", "x", "t">>
ImagePrompt == <<"i", "m", "a", "g", "e", "P", "r", "o", "m", "p", "t">>
HasCharacter == <<"h", "a", "s", "C", "h", "a", "r", "a", "c", "t", "e", "r">>

\* {"narrativeText":"<a>","imagePrompt":"<b>"}
SegmentText(a, b) ==
  <<"{">> \o Q(NarrativeText) \o <<":">> \o Q(a) \o <<",">>
    \o Q(ImagePrompt) \o <<":">> \o Q(b) \o <<"}">>

\* the contents a storyboard response may carry
StoryContents ==
  {<<>>,
   <<" ">>,
   <<"[", "]">>,
   <<"[">> \o SegmentText(<<"A">>, <<"B">>) \o <<"]">>,
   <<"[">> \o SegmentText(<<"A">>, <<"B">>) \o <<",", " ">>
     \o SegmentText(<<"C">>, <<"D">>) \o <<"]">>,
   <<"[">> \o SegmentText(<<"A">>, <<"B">>) \o <<",">>,
   <<"[">> \o Q(Fence) \o <<"]">>,
   <<"{", "}">>,
   <<"S", "o", "r", "r", "y">>}

StoryTexts ==
  {Undefined} \cup {Str(c) : c \in StoryContents}
    \cup {Str(InJsonFence(c)) : c \in StoryContents}
    \cup {Str(InPlainFence(c)) : c \in StoryContents}

\* {"hasCharacter":<v>}
HasCharacterText(v) == <<"{">> \o Q(HasCharacter) \o <<":">> \o v \o <<"}">>

\* the texts a character-check response may carry
CheckTexts ==
  {Undefined, Str(<<>>),
   Str(HasCharacterText(<<"t", "r", "u", "e">>)),
   Str(HasCharacterText(<<"f", "a", "l", "s", "e">>)),
   Str(HasCharacterText(<<"0">>)),
   Str(HasCharacterText(<<"1">>)),
   Str(HasCharacterText(<<"n", "u", "l", "l">>)),
   Str(HasCharacterText(Q(<<>>))),
   Str(HasCharacterText(Q(<<"y", "e", "s">>))),
   Str(HasCharacterText(<<"[", "]">>)),
   Str(<<"{", "}">>),
   Str(<<"{">> \o Q(<<"o", "t", "h", "e", "r">>) \o <<":", "1", "}">>),
   Str(<<"n", "u", "l", "l">>),
   Str(<<"[", "]">>),
   Str(<<"7">>),
   Str(Q(<<"y", "e", "s">>)),
   Str(<<"t", "r", "u", "e">>),
   Str(<<"S", "o", "r", "r", "y">>),
   Str(InJsonFence(HasCharacterText(<<"f", "a", "l", "s", "e">>)))}

(***************************************************************************)
(* getClient and the response handling of the four operations.             *)
(***************************************************************************)
MissingKey == "API Key is missing. Please provide a key in settings or .env"

\* getClient preferring the fallback: const key = ENV_API_KEY || apiKey
getClient_envFirst(key) ==
  LET k == OrElse(Str(ENV_API_KEY), key)
  IN IF ~Truthy(k) THEN [ok |-> FALSE, key |-> <<>>, err |-> MissingKey]
     ELSE [ok |-> TRUE, key |-> k[2], err |-> ""]

\* const key = apiKey || ENV_API_KEY; if (!key) throw ...;
\* return new GoogleGenAI({ apiKey: key })
getClient(key) ==
  LET k == OrElse(key, Str(ENV_API_KEY))
  IN IF ~Truthy(k) THEN [ok |-> FALSE, key |-> <<>>, err |-> MissingKey]
     ELSE [ok |-> TRUE, key |-> k[2], err |-> ""]

\* a catch block that logs and returns null instead of rethrowing
LogAndRethrow_swallow(e) == Return(JNull)

\* the catch block of generateSpeech, generateStoryboard and
\* generateSceneImage: console.error(...); throw error
LogAndRethrow(e) == Throw(e)

\* a catch block that rethrows, as the other three operations do
LogAndReturnTrue_rethrow(e) == Throw(e)

\* the catch block of checkImageForCharacter: console.error(...); return true
LogAndReturnTrue(e) == Return(JTrue)

\* response.candidates?.[0]?.content?.parts, or none
FirstParts(resp) ==
  IF resp.candidates = <<>> THEN NoParts ELSE resp.candidates[1]

\* part.inlineData && part.inlineData.data
CarriesData(part) == part.inline /\ Truthy(part.data)

\* generateSpeech taking the first part that carries data, wherever it is
SpeechResult_anyPart(resp) ==
  LET ps == FirstParts(resp).parts
      hits == {k \in 1..Len(ps) : CarriesData(ps[k])}
  IN IF hits = {} THEN Return(JNull) ELSE Return(ps[Min(hits)].data)

\* generateSpeech after the await: the first part of the first candidate
SpeechResult(resp) ==
  LET c == FirstParts(resp)
  IN IF c.hasParts /\ c.parts # <<>> /\ CarriesData(c.parts[1])
     THEN Return(c.parts[1].data)
     ELSE Return(JNull)

RECURSIVE ScanParts(_, _)
\* for (const part of parts) { if (carries data) return data-URI } return null
ScanParts(parts, k) ==
  IF k > Len(parts) THEN Return(JNull)
  ELSE IF CarriesData(parts[k])
       THEN Return(Str(BuildDataUri(parts[k].mimeType, parts[k].data[2])))
       ELSE ScanParts(parts, k + 1)

\* generateSceneImage looking at the first part only
SceneImageResult_firstPartOnly(resp) ==
  LET ps == FirstParts(resp).parts
  IN IF ps # <<>> /\ CarriesData(ps[1])
     THEN Return(Str(BuildDataUri(ps[1].mimeType, ps[1].data[2])))
     ELSE Return(JNull)

\* generateSceneImage after the await
SceneImageResult(resp) == ScanParts(FirstParts(resp).parts, 1)

\* textResponse.replace(json fence, '').replace(fence, '').trim()
CleanText(t) == Trim(RemoveAll(RemoveAll(t, FenceJson), Fence))

\* generateStoryboard defaulting to the empty array when the parse fails
StoryboardBody_defaulting(resp) ==
  LET textResponse == OrElse(resp.text, Str(<<"[", "]">>))
      r == JSONParse(CleanText(textResponse[2]))
  IN IF r.ok THEN Return(r.val) ELSE Return(<<"arr", <<>>>>)

\* generateStoryboard after the await, inside the try block
StoryboardBody(resp) ==
  LET textResponse == OrElse(resp.text, Str(<<"[", "]">>))
      r == JSONParse(CleanText(textResponse[2]))
  IN IF r.ok THEN Return(r.val) ELSE Throw("SyntaxError")

\* checkImageForCharacter answering false on an empty response text
CheckBody_emptyFalse(resp) ==
  IF ~Truthy(resp.text) THEN Return(JFalse)
  ELSE LET r == JSONParse(resp.text[2])
       IN IF ~r.ok THEN Throw("SyntaxError")
          ELSE IF CannotRead(r.val) THEN Throw("TypeError")
          ELSE Return(Bool(Truthy(GetProp(r.val, HasCharacter))))

\* checkImageForCharacter after the await, inside the try block
CheckBody(resp) ==
  IF ~Truthy(resp.text) THEN Return(JTrue)
  ELSE LET r == JSONParse(resp.text[2])
       IN IF ~r.ok THEN Throw("SyntaxError")
          ELSE IF CannotRead(r.val) THEN Throw("TypeError")
          ELSE Return(Bool(Truthy(GetProp(r.val, HasCharacter))))

\* the try block of an operation once the remote call has settled
TryBody(o, resp) ==
  IF resp.status = "rejected" THEN Throw(resp.err)
  ELSE CASE o = "generateSpeech" -> SpeechResult(resp)
         [] o = "generateStoryboard" -> StoryboardBody(resp)
         [] o = "generateSceneImage" -> SceneImageResult(resp)
         [] o = "checkImageForCharacter" -> CheckBody(resp)

\* try { ... } catch (error) { ... } of each operation
Settle(o, resp) ==
  LET r == TryBody(o, resp)
  IN IF r.kind # "throw" THEN r
     ELSE IF o = "checkImageForCharacter" THEN LogAndReturnTrue(r.err)
     ELSE LogAndRethrow(r.err)

\* the guard with the negation of the fallback dropped
NoCredential_envSet(key) == ~Truthy(key) /\ Truthy(Str(ENV_API_KEY))

\* if (!apiKey && !ENV_API_KEY) return true
NoCredential(key) == ~Truthy(key) /\ ~Truthy(Str(ENV_API_KEY))

\* a part of a request: inline data, or a text
InlineDataPart(d) == <<"inlineData", d>>
TextOf(what) == <<"text", what>>

\* the parts of a scene-image request: the reference image as inline data
\* followed by the style-transfer instruction, or the prompt alone
ReferenceParts(ref) ==
  IF Truthy(ref)
  THEN <<InlineDataPart(ParseDataUri(ref[2])), TextOf("style of reference")>>
  ELSE <<TextOf("prompt")>>

\* the parts of a character-check request: the image as inline data and
\* the question
CheckParts(img) ==
  <<InlineDataPart(ParseDataUri(img[2])), TextOf("question")>>

(***************************************************************************)
(* Actions.                                                                *)
(***************************************************************************)
Init ==
  /\ ENV_API_KEY \in EnvKeys
  /\ lastImage = Undefined
  /\ pc = "idle"
  /\ op = "none"
  /\ apiKey = Undefined
  /\ image = Undefined
  /\ clients = <<>>
  /\ requests = <<>>
  /\ response = NoResponse
  /\ outcome = NoOutcome

\* an invocation up to its await: getClient, then the request
Begin(o, key, img, parts, model) ==
  /\ op' = o
  /\ apiKey' = key
  /\ image' = img
  /\ response' = NoResponse
  /\ LET c == getClient(key)
     IN IF ~c.ok
        THEN /\ pc' = "done"
             /\ outcome' = Throw(c.err)
             /\ UNCHANGED <<clients, requests>>
        ELSE /\ pc' = "awaiting"
             /\ outcome' = NoOutcome
             /\ clients' = Append(clients, c.key)
             /\ requests' = Append(requests, [model |-> model, parts |-> parts])
  /\ UNCHANGED <<ENV_API_KEY, lastImage>>

generateSpeech ==
  /\ pc = "idle"
  /\ \E key \in ApiKeys :
       Begin("generateSpeech", key, Undefined, <<TextOf("text")>>,
             "gemini-2.5-flash-preview-tts")

generateStoryboard ==
  /\ pc = "idle"
  /\ \E key \in ApiKeys :
       Begin("generateStoryboard", key, Undefined, <<TextOf("fullText")>>,
             "gemini-2.5-flash")

generateSceneImage ==
  /\ pc = "idle"
  /\ \E key \in ApiKeys, ref \in {Undefined, lastImage} \cup Images :
       Begin("generateSceneImage", key, ref, ReferenceParts(ref),
             "gemini-2.5-flash-image")

checkImageForCharacter ==
  /\ pc = "idle"
  /\ \E key \in ApiKeys, img \in ({lastImage} \cup Images) \ {Undefined} :
       IF NoCredential(key)
       THEN /\ op' = "checkImageForCharacter"
            /\ apiKey' = key
            /\ image' = img
            /\ response' = NoResponse
            /\ pc' = "done"
            /\ outcome' = Return(JTrue)
            /\ UNCHANGED <<ENV_API_KEY, lastImage, clients, requests>>
       ELSE Begin("checkImageForCharacter", key, img, CheckParts(img),
                  "gemini-2.5-flash")

\* what the remote service may answer to the operation in flight
Answers(o) ==
  IF o \in {"generateSpeech", "generateSceneImage"}
  THEN {Resolved(cs, Undefined) : cs \in CandidateLists}
  ELSE IF o = "generateStoryboard"
  THEN {Resolved(<<>>, t) : t \in StoryTexts}
  ELSE {Resolved(<<>>, t) : t \in CheckTexts}

\* the remote call resolves and the operation runs to its end
RemoteResolves ==
  /\ pc = "awaiting"
  /\ \E resp \in Answers(op) :
       /\ response' = resp
       /\ outcome' = Settle(op, resp)
  /\ pc' = "done"
  /\ UNCHANGED <<ENV_API_KEY, lastImage, op, apiKey, image, clients, requests>>

\* the remote call is rejected and the operation runs to its end
RemoteRejects ==
  /\ pc = "awaiting"
  /\ \E e \in RemoteErrors :
       /\ response' = Rejected(e)
       /\ outcome' = Settle(op, Rejected(e))
  /\ pc' = "done"
  /\ UNCHANGED <<ENV_API_KEY, lastImage, op, apiKey, image, clients, requests>>

\* the caller takes the outcome; it keeps a generated scene image
CallerContinues ==
  /\ pc = "done"
  /\ pc' = "idle"
  /\ lastImage' =
       IF op = "generateSceneImage" /\ outcome.kind = "return"
          /\ Tag(outcome.val) = "str"
       THEN outcome.val ELSE lastImage
  /\ op' = "none"
  /\ apiKey' = Undefined
  /\ image' = Undefined
  /\ clients' = <<>>
  /\ requests' = <<>>
  /\ response' = NoResponse
  /\ outcome' = NoOutcome
  /\ UNCHANGED ENV_API_KEY

Next ==
  \/ generateSpeech
  \/ generateStoryboard
  \/ generateSceneImage
  \/ checkImageForCharacter
  \/ RemoteResolves
  \/ RemoteRejects
  \/ CallerContinues

Spec == Init /\ [][Next]_vars

(***************************************************************************)
(* Properties.                                                             *)
(***************************************************************************)
Propagating == {"generateSpeech", "generateStoryboard", "generateSceneImage"}
Finished(o) == op = o /\ pc = "done"
Answered(o) == Finished(o) /\ response.status = "ok"
EmptyArray == <<"arr", <<>>>>

\* the parts of the first candidate of the response, none when it has no
\* candidate or the candidate has no parts
AnsweredParts ==
  IF response.candidates = <<>> THEN <<>> ELSE response.candidates[1].parts

\* the positions of the parts that carry inline data: a non-empty payload
Carrying ==
  {k \in 1..Len(AnsweredParts) :
     /\ AnsweredParts[k].inline
     /\ Tag(AnsweredParts[k].data) = "str"
     /\ AnsweredParts[k].data[2] # <<>>}

\* C1: checkImageForCharacter never ends by raising: whatever the image,
\* the keys, the fallback and the way the remote call and the parsing go,
\* it ends by returning a boolean.
C1_CheckNeverRaises ==
  op = "checkImageForCharacter" =>
    /\ outcome.kind # "throw"
    /\ pc = "done" => outcome.kind = "return" /\ Tag(outcome.val) = "bool"

\* a character check whose remote call was rejected has returned true
C1_Witness ==
  /\ Finished("checkImageForCharacter")
  /\ response.status = "rejected"
  /\ outcome = Return(JTrue)

\* C2: with no explicit key (absent or empty) and an empty fallback, the
\* three propagating operations end with the missing-key error and no
\* request, and the character check returns true with no client and no
\* request.
C2_MissingCredential ==
  (pc # "idle" /\ ~Truthy(apiKey) /\ ENV_API_KEY = <<>>) =>
    /\ pc = "done"
    /\ requests = <<>>
    /\ clients = <<>>
    /\ op \in Propagating => outcome = Throw(MissingKey)
    /\ op = "checkImageForCharacter" => outcome = Return(JTrue)

\* a character check without any credential has returned true
C2_Witness ==
  /\ Finished("checkImageForCharacter")
  /\ apiKey = Str(<<>>)
  /\ ENV_API_KEY = <<>>
  /\ outcome = Return(JTrue)
  /\ clients = <<>>

\* C3: every operation constructs its client with the caller's key when
\* that key is present and non-empty, whatever the fallback; with the
\* fallback only when the caller's key is absent or empty; and never with
\* an empty credential.
C3_CredentialResolution ==
  pc # "idle" =>
    /\ Truthy(apiKey) => clients = <<apiKey[2]>>
    /\ (~Truthy(apiKey) /\ ENV_API_KEY # <<>>) => clients = <<ENV_API_KEY>>
    /\ (~Truthy(apiKey) /\ ENV_API_KEY = <<>>) => clients = <<>>
    /\ \A i \in 1..Len(clients) : clients[i] # <<>>

\* a character check given a key while a fallback is set uses the key
C3_Witness ==
  /\ op = "checkImageForCharacter"
  /\ apiKey = Str(<<"K">>)
  /\ ENV_API_KEY = <<"E">>
  /\ clients = <<<<"K">>>>

\* C4: when the remote call of generateSpeech, generateStoryboard or
\* generateSceneImage is rejected, the invocation ends by raising that very
\* error, returns nothing, and has issued exactly one request; no
\* invocation issues more than one.
C4_RemoteFailurePropagates ==
  op \in Propagating =>
    /\ Len(requests) <= 1
    /\ response.status = "rejected" =>
         /\ pc = "done"
         /\ outcome = Throw(response.err)
         /\ Len(requests) = 1

\* a storyboard invocation whose remote call was rejected has raised the
\* error of the rejection
C4_Witness ==
  /\ Finished("generateStoryboard")
  /\ response = Rejected("NetworkError")
  /\ outcome = Throw("NetworkError")

\* C5: in generateStoryboard a response text that is no JSON once the
\* fences are stripped ends the invocation with the parse error; a value is
\* returned without parsing the text only when the text is absent or
\* empty, and it is then the empty sequence.
C5_ParseFailurePropagates ==
  Answered("generateStoryboard") =>
    IF Truthy(response.text)
    THEN LET r == JSONParse(CleanText(response.text[2]))
         IN /\ ~r.ok => outcome = Throw("SyntaxError")
            /\ r.ok => outcome = Return(r.val)
    ELSE outcome = Return(EmptyArray)

\* a fenced text that is no JSON has ended the invocation with the parse
\* error
C5_Witness ==
  /\ Finished("generateStoryboard")
  /\ response.text = Str(InJsonFence(<<"S", "o", "r", "r", "y">>))
  /\ outcome = Throw("SyntaxError")

\* C6: a data-URI that generateSceneImage built from a part with MIME type
\* m and payload p, given back as referenceImage, is sent as inline data
\* with MIME type m (image/png when the part had none) and payload p.
C6_DataUriRoundTrip ==
  (op = "generateSceneImage" /\ pc = "awaiting" /\ image = lastImage) =>
    \A part \in PartSet :
      (CarriesData(part)
         /\ image = Str(BuildDataUri(part.mimeType, part.data[2]))) =>
        requests[1].parts[1] =
          <<"inlineData",
            [mimeType |-> OrElse(part.mimeType, Str(ImagePng)),
             data |-> part.data]>>

\* C7: in generateStoryboard a response text that is a content c inside
\* code fences ends the invocation as the text c without fences does.
C7_FencedAsUnfenced ==
  Answered("generateStoryboard") =>
    \A c \in StoryContents :
      response.text \in {Str(InJsonFence(c)), Str(InPlainFence(c))} =>
        outcome = Settle("generateStoryboard", Resolved(<<>>, Str(c)))

\* C8: generateSceneImage, on a response, returns the data-URI of the first
\* part of the first candidate that carries inline data, with image/png
\* for a part without MIME type, and null exactly when there is no such
\* part; it does not raise.
C8_FirstInlinePart ==
  Answered("generateSceneImage") =>
    IF Carrying = {} THEN outcome = Return(JNull)
    ELSE LET part == AnsweredParts[Min(Carrying)]
             mime == IF Truthy(part.mimeType) THEN part.mimeType[2]
                     ELSE ImagePng
         IN outcome =
              Return(Str(<<"d", "a", "t", "a", ":">> \o mime
                           \o <<";", "b", "a", "s", "e", "6", "4", ",">>
                           \o part.data[2]))

\* the first candidate's second part is the first to carry data, a later
\* candidate carries other data, and the second part's data-URI is returned
C8_Witness ==
  /\ Answered("generateSceneImage")
  /\ Len(response.candidates) = 2
  /\ response.candidates[2].hasParts
  /\ Carrying # {}
  /\ Min(Carrying) = 2
  /\ AnsweredParts[2].mimeType = Undefined
  /\ outcome =
       Return(Str(<<"d", "a", "t", "a", ":">> \o ImagePng
                    \o <<";", "b", "a", "s", "e", "6", "4", ",", "C">>))

\* C9: generateSpeech, on a response, returns the payload of the first part
\* of the first candidate when that part carries inline data, and null
\* otherwise, whatever the later parts and candidates carry; it does not
\* raise.
C9_FirstPartOnly ==
  Answered("generateSpeech") =>
    IF 1 \in Carrying THEN outcome = Return(AnsweredParts[1].data)
    ELSE outcome = Return(JNull)

\* the first part carries nothing, a later part and a later candidate carry
\* data, and null is returned
C9_Witness ==
  /\ Answered("generateSpeech")
  /\ Len(response.candidates) = 2
  /\ response.candidates[2].hasParts
  /\ Carrying = {2}
  /\ outcome = Return(JNull)

\* C10: checkImageForCharacter returns false exactly when a credential was
\* available, the remote call resolved, its text was non-empty and parsed
\* as JSON, the hasCharacter field of the parsed value could be read and
\* was falsy or missing; in every other case it returns true.
C10_FalseIff ==
  Finished("checkImageForCharacter") =>
    LET denied ==
          /\ Truthy(apiKey) \/ ENV_API_KEY # <<>>
          /\ response.status = "ok"
          /\ Truthy(response.text)
          /\ JSONParse(response.text[2]).ok
          /\ Tag(JSONParse(response.text[2]).val) # "null"
          /\ ~Truthy(GetProp(JSONParse(response.text[2]).val, HasCharacter))
    IN outcome = Return(Bool(~denied))

\* a character check has returned false on an object without the field
C10_Witness ==
  /\ Finished("checkImageForCharacter")
  /\ response.text = Str(<<"{", "}">>)
  /\ outcome = Return(JFalse)

====
